---- MODULE Spec2Model ----
(***************************************************************************)
(* Model of the API router of rapid-prereview (src/src/background.js):    *)
(* the streamed query routes GET /preprint and GET /action, which tee the *)
(* Store's stream into the response and into a buffer that is parsed and  *)
(* handed to req.cache, and the get-by-id routes, which fetch one record, *)
(* hand it to req.cache and send it.                                      *)
(*                                                                         *)
(* Requests are served one after the other; the cache outlives them.      *)
(* The cache middleware, the Store (req.db) and the stream it returns are *)
(* not part of the source file: they follow sections 4.1 and 6 of the     *)
(* specification.                                                          *)
(***************************************************************************)
EXTENDS Integers, Sequences, FiniteSets, TLC

\* ---------------------------------------------------------------- bounds
\* Body chunks the upstream stream emits at most per request.
MaxLen == 2
\* 'error' events the upstream stream emits at most per request.
MaxErrors == 2
\* Requests served one after the other.
MaxReqs == 2
\* Longest path parameter of a key derivation, in characters.
MaxIdLen == 2

\* ------------------------------------------------------------ vocabulary
\* One chunk is one byte: a JSON digit or JSON whitespace. "1", " 1" and "11"
\* are JSON documents; "", " " and "1 1" are not.
Bytes == {"1", " "}
Statuses == {200, 500}
CTypes == {"application/json", "text/plain"}
JsonType == "application/json"
StreamRoutes == {"/preprint", "/action"}
\* A cache slot is <<>> when empty and <<value>> when it holds an entry.
Absent == <<>>
NoReq == [kind |-> "none", route |-> "", id |-> ""]

VARIABLES
  cache,      \* CacheStore: key -> <<parsed value>>, or Absent
  served,     \* requests finished so far
  req,        \* the request being served, or NoReq
  pc,         \* its position: idle, lookup, handler, streaming, awaiting, done
  lookup,     \* what the cache middleware found: none, hit, miss, unavailable
  up,         \* the upstream stream s: phase, status, ctype, sent, errors,
              \* destroyed, tries (calls of s.destroy)
  buf,        \* the bytes concatStream has buffered
  res,        \* the response: statusSet, status, ctype, body, ended, closed
  hasErrored, \* the handler's hasErrored flag
  nextErrs,   \* calls of next(err)
  cacheCalls, \* calls of req.cache
  wrote,      \* a call of req.cache stored its value
  storeCalls, \* calls of the Store (streamPreprints, streamActions, get, post)
              \* or of resolve
  got,        \* what req.db.get, req.db.post or resolve gave: <<>>,
              \* <<"ok", value>> or <<"err">>
  fault,      \* an exception left a callback uncaught
  prev,       \* the request before this one and the body its caller got, when
              \* it missed the cache, succeeded and stored its value
  nextErr,    \* the error last given to next: <<>> or what it was
  storeKey,   \* the key last given to req.db.get, or <<>>
  paused,     \* the pipe into res has paused the upstream stream
  race,       \* two get-by-id requests served concurrently (SpecRace)
  keyCase     \* two requests and the cache keys derived for them (SpecKeys)

vars == <<cache, served, req, pc, lookup, up, buf, res, hasErrored, nextErrs,
          cacheCalls, wrote, storeCalls, got, fault, prev, nextErr, storeKey,
          paused, race, keyCase>>

\* ------------------------------------------------------- JSON conversion
DigitChar == [d \in 0..9 |->
  CASE d = 0 -> "0" [] d = 1 -> "1" [] d = 2 -> "2" [] d = 3 -> "3"
    [] d = 4 -> "4" [] d = 5 -> "5" [] d = 6 -> "6" [] d = 7 -> "7"
    [] d = 8 -> "8" [] d = 9 -> "9"]

RECURSIVE StripLeft(_)
StripLeft(s) ==
  IF s # <<>> /\ Head(s) = " " THEN StripLeft(Tail(s)) ELSE s

RECURSIVE StripRight(_)
StripRight(s) ==
  IF s # <<>> /\ s[Len(s)] = " "
  THEN StripRight(SubSeq(s, 1, Len(s) - 1)) ELSE s

RECURSIVE DigitsValue(_)
DigitsValue(s) ==
  IF s = <<>> THEN 0
  ELSE 10 * DigitsValue(SubSeq(s, 1, Len(s) - 1))
       + (CHOOSE d \in 0..9 : DigitChar[d] = s[Len(s)])

IsDigits(s) ==
  /\ s # <<>>
  /\ \A i \in 1..Len(s) : \E d \in 0..9 : DigitChar[d] = s[i]
  /\ (Len(s) > 1 => s[1] # "0")

\* JSON.parse(buffer): surrounding whitespace is skipped; what is left must
\* be a number, anything else throws.
ParseJSON(s) ==
  LET t == StripRight(StripLeft(s))
  IN IF IsDigits(t) THEN [ok |-> TRUE, val |-> DigitsValue(t)]
     ELSE [ok |-> FALSE, val |-> 0]

\* JSON.stringify(value), as res.json sends it.
RECURSIVE Stringify(_)
Stringify(n) ==
  IF n < 10 THEN <<DigitChar[n]>>
  ELSE Stringify(n \div 10) \o <<DigitChar[n % 10]>>

\* -------------------------------------------------------------- requests
ByIdTypes == {"preprint", "review", "request", "user", "role"}
Ids == {"123", "456"}
StreamRequests == [kind : {"stream"}, route : StreamRoutes, id : {""}]
ByIdRequests == [kind : {"byid"}, route : ByIdTypes, id : Ids]
\* Spec serves the two streamed routes and GET /preprint/123; SpecById
\* serves every get-by-id route, which differ in their key prefix only.
Requests ==
  StreamRequests \cup {r \in ByIdRequests : r.route = "preprint" /\ r.id = "123"}

\* The key function a get-by-id route gives to cache(): `<type>:<id>`.
KeyOverride(r) == <<r.route, r.id>>
\* StoreKey had a get-by-id route kept the key prefix of the route it was
\* copied from.
StoreKey_CopiedPrefix(r) == <<"preprint", r.id>>
\* The key a get-by-id handler gives to req.db.get: `<type>:<id>`.
StoreKey(r) == <<r.route, r.id>>
\* cache() without a key function: the key is derived from method and route.
DefaultKey(r) == <<"GET", r.route>>
\* A key function given to the middleware wins over the default derivation.
DeriveKey(r) == IF r.kind = "byid" THEN KeyOverride(r) ELSE DefaultKey(r)

Keys == {DeriveKey(r) : r \in StreamRequests \cup ByIdRequests}
\* The values a record of the Store can hold.
Values == {1, 11}

NoUp == [phase |-> "none", status |-> 0, ctype |-> "", sent |-> <<>>,
         errors |-> 0, destroyed |-> FALSE, tries |-> 0]
\* A fresh ServerResponse: status 200 until set, no content-type yet.
\* needDrain: res.write returned false and res has not drained since.
NoRes == [statusSet |-> FALSE, status |-> 200, ctype |-> "", body |-> <<>>,
          ended |-> FALSE, closed |-> FALSE, needDrain |-> FALSE]

NoPrev == [req |-> NoReq, body |-> <<>>]
NoRace == <<>>
NoKeyCase == <<>>

Init ==
  /\ cache = [k \in Keys |-> Absent]
  /\ served = 0
  /\ req = NoReq
  /\ pc = "idle"
  /\ lookup = "none"
  /\ up = NoUp
  /\ buf = <<>>
  /\ res = NoRes
  /\ hasErrored = FALSE
  /\ nextErrs = 0
  /\ cacheCalls = 0
  /\ wrote = FALSE
  /\ storeCalls = 0
  /\ got = <<>>
  /\ fault = FALSE
  /\ prev = NoPrev
  /\ nextErr = <<>>
  /\ storeKey = <<>>
  /\ paused = FALSE
  /\ race = NoRace
  /\ keyCase = NoKeyCase

\* A request out of rs arrives at the router.
Dispatch(rs) ==
  /\ pc = "idle"
  /\ served < MaxReqs
  /\ \E r \in rs : req' = r
  /\ pc' = "lookup"
  /\ UNCHANGED <<cache, served, lookup, up, buf, res, hasErrored, nextErrs,
                 cacheCalls, wrote, storeCalls, got, fault, prev,
                 nextErr, storeKey, paused, race, keyCase>>

Arrive == Dispatch(Requests)
ArriveById == Dispatch(ByIdRequests)

\* res.json(value): JSON content type, the serialised value, end of response.
ResJson(r, v) ==
  [r EXCEPT !.ctype = JsonType, !.body = Stringify(v), !.ended = TRUE]

\* The cache middleware finds the key: it answers itself, the route handler
\* never runs.
CacheHit ==
  /\ pc = "lookup"
  /\ cache[DeriveKey(req)] # Absent
  /\ lookup' = "hit"
  /\ res' = ResJson(res, cache[DeriveKey(req)][1])
  /\ pc' = "done"
  /\ UNCHANGED <<cache, served, req, up, buf, hasErrored, nextErrs,
                 cacheCalls, wrote, storeCalls, got, fault, prev,
                 nextErr, storeKey, paused, race, keyCase>>

\* The cache middleware finds nothing, or cannot reach the cache (fail-open):
\* it installs req.cache and calls next().
CacheMiss ==
  /\ pc = "lookup"
  /\ \/ cache[DeriveKey(req)] = Absent /\ lookup' = "miss"
     \/ lookup' = "unavailable"
  /\ pc' = "handler"
  /\ UNCHANGED <<cache, served, req, up, buf, res, hasErrored, nextErrs,
                 cacheCalls, wrote, storeCalls, got, fault, prev,
                 nextErr, storeKey, paused, race, keyCase>>

\* req.cache(value): the write is stored, is lost without a word, or throws.
CacheOutcomes == {"stored", "dropped", "throws"}
CacheSet(c, k, v, outcome) ==
  IF outcome = "stored" THEN [c EXCEPT ![k] = <<v>>] ELSE c

\* ------------------------------------------------ GET /preprint, /action
\* StreamHandler without its res.setHeader('content-type', ...).
StreamHandler_NoHeader ==
  /\ pc = "handler"
  /\ req.kind = "stream"
  /\ hasErrored' = FALSE
  /\ up' = [NoUp EXCEPT !.phase = "open"]
  /\ storeCalls' = storeCalls + 1
  /\ buf' = <<>>
  /\ pc' = "streaming"
  /\ UNCHANGED <<cache, served, req, lookup, res, nextErrs, cacheCalls, wrote,
                 got, fault, prev,
                 nextErr, storeKey, paused, race, keyCase>>

\* The handler's synchronous part: content type, hasErrored, the Store's
\* stream, its listeners and the two pipes.
StreamHandler ==
  /\ pc = "handler"
  /\ req.kind = "stream"
  /\ res' = [res EXCEPT !.ctype = JsonType]
  /\ hasErrored' = FALSE
  /\ up' = [NoUp EXCEPT !.phase = "open"]
  /\ storeCalls' = storeCalls + 1
  /\ buf' = <<>>
  /\ pc' = "streaming"
  /\ UNCHANGED <<cache, served, req, lookup, nextErrs, cacheCalls, wrote,
                 got, fault, prev,
                 nextErr, storeKey, paused, race, keyCase>>

\* What the Store's stream may emit next (section 6: a response event before
\* any body byte, then either an error event or normal completion). A paused
\* stream emits neither data nor its end.
CanEmitResponse == pc = "streaming" /\ up.phase = "open"
CanEmitData ==
  pc = "streaming" /\ up.phase = "responded" /\ Len(up.sent) < MaxLen /\ ~paused
CanEmitEnd == pc = "streaming" /\ up.phase = "responded" /\ ~paused
CanEmitError ==
  /\ pc = "streaming"
  /\ up.phase \in {"open", "responded", "errored"}
  /\ up.errors < MaxErrors

\* OnResponse had the listener forgotten res.status(response.statusCode).
OnResponse_NoStatus ==
  /\ CanEmitResponse
  /\ \E st \in Statuses, ct \in CTypes :
       up' = [up EXCEPT !.phase = "responded", !.status = st, !.ctype = ct]
  /\ UNCHANGED <<cache, served, req, pc, lookup, buf, res, hasErrored,
                 nextErrs, cacheCalls, wrote, storeCalls, got, fault, prev,
                 nextErr, storeKey, paused, race, keyCase>>

\* s.on('response'): the upstream status goes to the response.
OnResponse ==
  /\ CanEmitResponse
  /\ \E st \in Statuses, ct \in CTypes :
       /\ up' = [up EXCEPT !.phase = "responded", !.status = st, !.ctype = ct]
       /\ res' = [res EXCEPT !.statusSet = TRUE, !.status = st]
  /\ UNCHANGED <<cache, served, req, pc, lookup, buf, hasErrored, nextErrs,
                 cacheCalls, wrote, storeCalls, got, fault, prev,
                 nextErr, storeKey, paused, race, keyCase>>

\* OnData had concatStream been piped too late to see the first chunk.
OnData_LateTee ==
  /\ CanEmitData
  /\ \E b \in Bytes, accepted \in BOOLEAN :
       /\ paused' = (~res.closed /\ ~accepted)
       /\ up' = [up EXCEPT !.sent = Append(@, b)]
       /\ buf' = IF up.sent = <<>> THEN buf ELSE Append(buf, b)
       /\ res' = IF res.closed THEN res
                 ELSE [res EXCEPT !.body = Append(@, b),
                                  !.needDrain = ~accepted]
  /\ UNCHANGED <<cache, served, req, pc, lookup, hasErrored, nextErrs,
                 cacheCalls, wrote, storeCalls, got, fault, prev,
                 nextErr, storeKey, race, keyCase>>

\* OnData had the tee written into res without heeding what res.write
\* returns: the stream is never paused.
OnData_NoPause ==
  /\ CanEmitData
  /\ \E b \in Bytes, accepted \in BOOLEAN :
       /\ paused' = FALSE
       /\ up' = [up EXCEPT !.sent = Append(@, b)]
       /\ buf' = Append(buf, b)
       /\ res' = IF res.closed THEN res
                 ELSE [res EXCEPT !.body = Append(@, b),
                                  !.needDrain = ~accepted]
  /\ UNCHANGED <<cache, served, req, pc, lookup, hasErrored, nextErrs,
                 cacheCalls, wrote, storeCalls, got, fault, prev,
                 nextErr, storeKey, race, keyCase>>

\* A chunk goes down both pipes: always into concatStream, and into res as
\* long as res is piped (a closed res has been unpiped). When res.write
\* does not accept more, the pipe pauses the stream until res drains.
OnData ==
  /\ CanEmitData
  /\ \E b \in Bytes, accepted \in BOOLEAN :
       /\ paused' = (~res.closed /\ ~accepted)
       /\ up' = [up EXCEPT !.sent = Append(@, b)]
       /\ buf' = Append(buf, b)
       /\ res' = IF res.closed THEN res
                 ELSE [res EXCEPT !.body = Append(@, b),
                                  !.needDrain = ~accepted]
  /\ UNCHANGED <<cache, served, req, pc, lookup, hasErrored, nextErrs,
                 cacheCalls, wrote, storeCalls, got, fault, prev,
                 nextErr, storeKey, race, keyCase>>

\* The stream ends: concatStream hands its buffer to the callback, which
\* parses it and calls req.cache, and res is ended. Nothing catches what the
\* callback throws; whether res.end() ran before the throw depends on
\* whether concatStream finishes within the 'end' event or a tick later.
OnEnd ==
  /\ CanEmitEnd
  /\ up' = [up EXCEPT !.phase = "ended"]
  /\ pc' = "done"
  /\ LET p == ParseJSON(buf)
     IN IF ~p.ok
        THEN /\ fault' = TRUE
             /\ UNCHANGED <<cache, cacheCalls, wrote>>
             /\ \E endedFirst \in BOOLEAN :
                  res' = IF res.closed \/ ~endedFirst THEN res
                         ELSE [res EXCEPT !.ended = TRUE]
        ELSE \E o \in CacheOutcomes :
               /\ cacheCalls' = cacheCalls + 1
               /\ cache' = CacheSet(cache, DeriveKey(req), p.val, o)
               /\ wrote' = (o = "stored")
               /\ fault' = (o = "throws")
               /\ \E endedFirst \in BOOLEAN :
                    res' = IF res.closed \/ (o = "throws" /\ ~endedFirst)
                           THEN res
                           ELSE [res EXCEPT !.ended = TRUE]
  /\ UNCHANGED <<served, req, lookup, buf, hasErrored, nextErrs, storeCalls,
                 got, prev,
                 nextErr, storeKey, paused, race, keyCase>>

\* OnError without the hasErrored test: every 'error' event calls next(err).
OnError_NoGuard ==
  /\ CanEmitError
  /\ hasErrored' = TRUE
  /\ nextErrs' = nextErrs + 1
  /\ nextErr' = <<"upstream", up.errors + 1>>
  /\ \E destroyThrows \in BOOLEAN :
       up' = [up EXCEPT !.phase = "errored", !.errors = @ + 1, !.tries = @ + 1,
                        !.destroyed = @ \/ ~destroyThrows]
  /\ UNCHANGED <<cache, served, req, pc, lookup, buf, res, cacheCalls, wrote,
                 storeCalls, got, fault, prev,
                 storeKey, paused, race, keyCase>>

\* OnError had the error listener also ended the buffering sink, so that
\* concatStream's callback ran on what had arrived so far.
OnError_FlushesBuffer ==
  /\ CanEmitError
  /\ hasErrored' = TRUE
  /\ nextErrs' = IF hasErrored THEN nextErrs ELSE nextErrs + 1
  /\ nextErr' = IF hasErrored THEN nextErr ELSE <<"upstream", up.errors + 1>>
  /\ \E destroyThrows \in BOOLEAN :
       up' = [up EXCEPT !.phase = "errored", !.errors = @ + 1, !.tries = @ + 1,
                        !.destroyed = @ \/ ~destroyThrows]
  /\ LET p == ParseJSON(buf)
     IN IF p.ok
        THEN /\ cacheCalls' = cacheCalls + 1
             /\ cache' = CacheSet(cache, DeriveKey(req), p.val, "stored")
             /\ wrote' = TRUE
             /\ fault' = fault
        ELSE /\ fault' = TRUE
             /\ UNCHANGED <<cache, cacheCalls, wrote>>
  /\ UNCHANGED <<served, req, pc, lookup, buf, res, storeCalls, got, prev,
                 storeKey, paused, race, keyCase>>

\* OnError without the try/catch around s.destroy(): what destroy throws
\* leaves the listener.
OnError_NoCatch ==
  /\ CanEmitError
  /\ hasErrored' = TRUE
  /\ nextErrs' = IF hasErrored THEN nextErrs ELSE nextErrs + 1
  /\ nextErr' = IF hasErrored THEN nextErr ELSE <<"upstream", up.errors + 1>>
  /\ \E destroyThrows \in BOOLEAN :
       /\ up' = [up EXCEPT !.phase = "errored", !.errors = @ + 1,
                           !.tries = @ + 1,
                           !.destroyed = @ \/ ~destroyThrows]
       /\ fault' = (fault \/ destroyThrows)
  /\ UNCHANGED <<cache, served, req, pc, lookup, buf, res, cacheCalls, wrote,
                 storeCalls, got, prev, storeKey, paused, race, keyCase>>

\* s.on('error'): next(err) the first time only, then s.destroy(), whose
\* own exception is swallowed.
OnError ==
  /\ CanEmitError
  /\ hasErrored' = TRUE
  /\ nextErrs' = IF hasErrored THEN nextErrs ELSE nextErrs + 1
  /\ nextErr' = IF hasErrored THEN nextErr ELSE <<"upstream", up.errors + 1>>
  /\ \E destroyThrows \in BOOLEAN :
       up' = [up EXCEPT !.phase = "errored", !.errors = @ + 1, !.tries = @ + 1,
                        !.destroyed = @ \/ ~destroyThrows]
  /\ UNCHANGED <<cache, served, req, pc, lookup, buf, res, cacheCalls, wrote,
                 storeCalls, got, fault, prev,
                 storeKey, paused, race, keyCase>>

\* res has drained: the pipe resumes the stream.
ResDrain ==
  /\ pc = "streaming"
  /\ up.phase = "responded"
  /\ paused
  /\ res.needDrain
  /\ res' = [res EXCEPT !.needDrain = FALSE]
  /\ paused' = FALSE
  /\ UNCHANGED <<cache, served, req, pc, lookup, up, buf, hasErrored,
                 nextErrs, cacheCalls, wrote, storeCalls, got, fault, prev,
                 nextErr, storeKey, race, keyCase>>

\* The remote peer closes the response before the upstream has completed.
\* The handler listens to no 'close': the pipe into res is undone, the
\* stream and the pipe into concatStream go on.
ClientClose ==
  /\ pc = "streaming"
  /\ up.phase \in {"open", "responded"}
  /\ ~res.closed
  /\ res' = [res EXCEPT !.closed = TRUE, !.needDrain = FALSE]
  /\ paused' = FALSE
  /\ UNCHANGED <<cache, served, req, pc, lookup, up, buf, hasErrored,
                 nextErrs, cacheCalls, wrote, storeCalls, got, fault, prev,
                 nextErr, storeKey, race, keyCase>>

\* ---------------------------------------------- GET /<type>/:id routes
\* The handler up to its await: req.db.get('<type>:<id>').
ByIdHandler ==
  /\ pc = "handler"
  /\ req.kind = "byid"
  /\ storeCalls' = storeCalls + 1
  /\ storeKey' = StoreKey(req)
  /\ pc' = "awaiting"
  /\ UNCHANGED <<cache, served, req, lookup, up, buf, res, hasErrored,
                 nextErrs, cacheCalls, wrote, got, fault, prev,
                 nextErr, paused, race, keyCase>>

\* ByIdResolved had req.cache been given another record than the one sent.
ByIdResolved_CachesOther ==
  /\ pc = "awaiting"
  /\ req.kind = "byid"
  /\ \E v \in Values, w \in Values, o \in CacheOutcomes :
       /\ w # v
       /\ got' = <<"ok", v>>
       /\ cacheCalls' = cacheCalls + 1
       /\ cache' = CacheSet(cache, DeriveKey(req), w, o)
       /\ wrote' = (o = "stored")
       /\ IF o = "throws"
          THEN /\ nextErrs' = nextErrs + 1
               /\ nextErr' = <<"cache">>
               /\ res' = res
          ELSE /\ nextErrs' = nextErrs
               /\ nextErr' = nextErr
               /\ res' = ResJson(res, v)
  /\ pc' = "done"
  /\ UNCHANGED <<served, req, lookup, up, buf, hasErrored, storeCalls, fault,
                 prev,
                 storeKey, paused, race, keyCase>>

\* req.db.get resolved: req.cache(body), then res.json(body), both inside
\* the try; what req.cache throws goes to next(err) and nothing is sent.
ByIdResolved ==
  /\ pc = "awaiting"
  /\ req.kind = "byid"
  /\ \E v \in Values, o \in CacheOutcomes :
       /\ got' = <<"ok", v>>
       /\ cacheCalls' = cacheCalls + 1
       /\ cache' = CacheSet(cache, DeriveKey(req), v, o)
       /\ wrote' = (o = "stored")
       /\ IF o = "throws"
          THEN /\ nextErrs' = nextErrs + 1
               /\ nextErr' = <<"cache">>
               /\ res' = res
          ELSE /\ nextErrs' = nextErrs
               /\ nextErr' = nextErr
               /\ res' = ResJson(res, v)
  /\ pc' = "done"
  /\ UNCHANGED <<served, req, lookup, up, buf, hasErrored, storeCalls, fault,
                 prev,
                 storeKey, paused, race, keyCase>>

\* req.db.get rejected: next(err).
ByIdRejected ==
  /\ pc = "awaiting"
  /\ req.kind = "byid"
  /\ got' = <<"err">>
  /\ nextErrs' = nextErrs + 1
  /\ nextErr' = <<"store">>
  /\ pc' = "done"
  /\ UNCHANGED <<cache, served, req, lookup, up, buf, res, hasErrored,
                 cacheCalls, wrote, storeCalls, fault, prev,
                 storeKey, paused, race, keyCase>>

\* ------------------------------------------- GET /resolve, POST /action
\* The identifier query parameter: absent, empty, or some text.
Identifiers ==
  {"", "10.1101/674655", "10.1101/780577", "arXiv:1802.00001",
   "arXiv:1910.00585"}
ResolveRequests ==
  [kind : {"resolve"}, route : {"/resolve"}, id : Identifiers,
   present : BOOLEAN, authed : {FALSE}]
\* POST /action: id stands for req.body (the @type of the posted action).
ActionTypes == {"RapidPREreviewAction", "RequestForRapidPREreviewAction"}
PostRequests ==
  [kind : {"post"}, route : {"/action"}, id : ActionTypes, present : {TRUE},
   authed : BOOLEAN]
\* The four search routes of the router.
SearchRoutes == {"/review", "/request", "/user", "/role"}
SearchRequests ==
  [kind : {"search"}, route : SearchRoutes, id : {""}, present : {FALSE},
   authed : {FALSE}]
\* GET /pdf: id stands for req.query.url.
PdfRequests ==
  [kind : {"pdf"}, route : {"/pdf"}, id : {"https://example.org/a.pdf", "https://example.org/b.pdf"},
   present : {TRUE}, authed : {FALSE}]
\* Statuses of the fetched PDF: r.ok is 200..299.
PdfStatuses == {200, 404}
ApiRequests ==
  {r \in ResolveRequests : r.present \/ r.id = ""}
    \cup PostRequests \cup SearchRequests \cup PdfRequests

\* Neither route has the cache middleware before its handler.
ArriveApi ==
  /\ pc = "idle"
  /\ served < MaxReqs
  /\ \E r \in ApiRequests : req' = r
  /\ pc' = "handler"
  /\ UNCHANGED <<cache, served, lookup, up, buf, res, hasErrored, nextErrs,
                 cacheCalls, wrote, storeCalls, got, fault, prev, nextErr,
                 storeKey, paused, race, keyCase>>

\* !identifier: the parameter is absent or the empty string.
Falsy(r) == ~r.present \/ r.id = ""

\* ResolveHandler without the return in front of next(createError(400)).
ResolveHandler_NoReturn ==
  /\ pc = "handler"
  /\ req.kind = "resolve"
  /\ IF Falsy(req)
     THEN /\ nextErrs' = nextErrs + 1
          /\ nextErr' = <<"http", 400>>
     ELSE UNCHANGED <<nextErrs, nextErr>>
  /\ storeCalls' = storeCalls + 1
  /\ pc' = "awaiting"
  /\ UNCHANGED <<cache, served, req, lookup, up, buf, res, hasErrored,
                 cacheCalls, wrote, got, fault, prev, storeKey, paused, race,
                 keyCase>>

\* The /resolve handler up to its await: without an identifier it gives a
\* 400 to next and returns, else it calls resolve(identifier, config).
ResolveHandler ==
  /\ pc = "handler"
  /\ req.kind = "resolve"
  /\ IF Falsy(req)
     THEN /\ nextErrs' = nextErrs + 1
          /\ nextErr' = <<"http", 400>>
          /\ pc' = "done"
          /\ UNCHANGED storeCalls
     ELSE /\ storeCalls' = storeCalls + 1
          /\ pc' = "awaiting"
          /\ UNCHANGED <<nextErrs, nextErr>>
  /\ UNCHANGED <<cache, served, req, lookup, up, buf, res, hasErrored,
                 cacheCalls, wrote, got, fault, prev, storeKey, paused, race,
                 keyCase>>

\* resolve resolved: res.json(data).
ResolveResolved ==
  /\ pc = "awaiting"
  /\ req.kind = "resolve"
  /\ \E d \in Values :
       /\ got' = <<"ok", d>>
       /\ res' = ResJson(res, d)
  /\ pc' = "done"
  /\ UNCHANGED <<cache, served, req, lookup, up, buf, hasErrored, nextErrs,
                 cacheCalls, wrote, storeCalls, fault, prev, nextErr,
                 storeKey, paused, race, keyCase>>

\* ResolveRejected had the handler tried resolve once more before giving up.
ResolveRejected_Retries ==
  /\ pc = "awaiting"
  /\ req.kind = "resolve"
  /\ got' = <<"err">>
  /\ IF storeCalls < 2
     THEN /\ storeCalls' = storeCalls + 1
          /\ UNCHANGED <<pc, nextErrs, nextErr>>
     ELSE /\ nextErrs' = nextErrs + 1
          /\ nextErr' = <<"resolve">>
          /\ pc' = "done"
          /\ UNCHANGED storeCalls
  /\ UNCHANGED <<cache, served, req, lookup, up, buf, res, hasErrored,
                 cacheCalls, wrote, fault, prev, storeKey, paused, race,
                 keyCase>>

\* resolve rejected: next(err), nothing else.
ResolveRejected ==
  /\ pc = "awaiting"
  /\ req.kind = "resolve"
  /\ got' = <<"err">>
  /\ nextErrs' = nextErrs + 1
  /\ nextErr' = <<"resolve">>
  /\ pc' = "done"
  /\ UNCHANGED <<cache, served, req, lookup, up, buf, res, hasErrored,
                 cacheCalls, wrote, storeCalls, fault, prev, storeKey, paused,
                 race, keyCase>>

\* PostHandler without the return in front of next(createError(401)).
PostHandler_NoReturn ==
  /\ pc = "handler"
  /\ req.kind = "post"
  /\ IF ~req.authed
     THEN /\ nextErrs' = nextErrs + 1
          /\ nextErr' = <<"http", 401>>
     ELSE UNCHANGED <<nextErrs, nextErr>>
  /\ storeCalls' = storeCalls + 1
  /\ pc' = "awaiting"
  /\ UNCHANGED <<cache, served, req, lookup, up, buf, res, hasErrored,
                 cacheCalls, wrote, got, fault, prev, storeKey, paused, race,
                 keyCase>>

\* The POST /action handler up to its await: without a login it gives a 401
\* to next and returns, else it calls req.db.post(req.body, {user}).
PostHandler ==
  /\ pc = "handler"
  /\ req.kind = "post"
  /\ IF ~req.authed
     THEN /\ nextErrs' = nextErrs + 1
          /\ nextErr' = <<"http", 401>>
          /\ pc' = "done"
          /\ UNCHANGED storeCalls
     ELSE /\ storeCalls' = storeCalls + 1
          /\ pc' = "awaiting"
          /\ UNCHANGED <<nextErrs, nextErr>>
  /\ UNCHANGED <<cache, served, req, lookup, up, buf, res, hasErrored,
                 cacheCalls, wrote, got, fault, prev, storeKey, paused, race,
                 keyCase>>

\* req.db.post resolved: res.json(body).
PostResolved ==
  /\ pc = "awaiting"
  /\ req.kind = "post"
  /\ \E b \in Values :
       /\ got' = <<"ok", b>>
       /\ res' = ResJson(res, b)
  /\ pc' = "done"
  /\ UNCHANGED <<cache, served, req, lookup, up, buf, hasErrored, nextErrs,
                 cacheCalls, wrote, storeCalls, fault, prev, nextErr,
                 storeKey, paused, race, keyCase>>

\* req.db.post rejected: return next(err).
PostRejected ==
  /\ pc = "awaiting"
  /\ req.kind = "post"
  /\ got' = <<"err">>
  /\ nextErrs' = nextErrs + 1
  /\ nextErr' = <<"store">>
  /\ pc' = "done"
  /\ UNCHANGED <<cache, served, req, lookup, up, buf, res, hasErrored,
                 cacheCalls, wrote, storeCalls, fault, prev, storeKey, paused,
                 race, keyCase>>

\* A search route: next(createError(500, 'Not implemented yet')).
SearchHandler ==
  /\ pc = "handler"
  /\ req.kind = "search"
  /\ nextErrs' = nextErrs + 1
  /\ nextErr' = <<"http", 500>>
  /\ pc' = "done"
  /\ UNCHANGED <<cache, served, req, lookup, up, buf, res, hasErrored,
                 cacheCalls, wrote, storeCalls, got, fault, prev, storeKey,
                 paused, race, keyCase>>

\* The /pdf handler up to its await: fetch(pdfUrl).
PdfHandler ==
  /\ pc = "handler"
  /\ req.kind = "pdf"
  /\ storeCalls' = storeCalls + 1
  /\ pc' = "awaiting"
  /\ UNCHANGED <<cache, served, req, lookup, up, buf, res, hasErrored,
                 nextErrs, cacheCalls, wrote, got, fault, prev, nextErr,
                 storeKey, paused, race, keyCase>>

\* fetch resolved: r.ok pipes the body into res, else next(createError(
\* r.status)).
PdfFetched ==
  /\ pc = "awaiting"
  /\ req.kind = "pdf"
  /\ \E st \in PdfStatuses, b \in Bytes :
       /\ got' = <<"ok", st>>
       /\ IF st >= 200 /\ st < 300
          THEN /\ res' = [res EXCEPT !.body = <<b>>, !.ended = TRUE]
               /\ UNCHANGED <<nextErrs, nextErr>>
          ELSE /\ nextErrs' = nextErrs + 1
               /\ nextErr' = <<"http", st>>
               /\ UNCHANGED res
  /\ pc' = "done"
  /\ UNCHANGED <<cache, served, req, lookup, up, buf, hasErrored, cacheCalls,
                 wrote, storeCalls, fault, prev, storeKey, paused, race,
                 keyCase>>

\* fetch rejected: return next(err).
PdfRejected ==
  /\ pc = "awaiting"
  /\ req.kind = "pdf"
  /\ got' = <<"err">>
  /\ nextErrs' = nextErrs + 1
  /\ nextErr' = <<"fetch">>
  /\ pc' = "done"
  /\ UNCHANGED <<cache, served, req, lookup, up, buf, res, hasErrored,
                 cacheCalls, wrote, storeCalls, fault, prev, storeKey, paused,
                 race, keyCase>>

\* ------------------------------------------------------ end of a request
Terminal == pc = "done" \/ (pc = "streaming" /\ up.phase = "errored")

\* The caller got a complete body and nothing else went wrong.
Succeeded == res.ended /\ ~res.closed /\ nextErrs = 0 /\ ~fault

Finish ==
  /\ Terminal
  /\ served' = served + 1
  /\ req' = NoReq
  /\ pc' = "idle"
  /\ lookup' = "none"
  /\ up' = NoUp
  /\ buf' = <<>>
  /\ res' = NoRes
  /\ hasErrored' = FALSE
  /\ nextErrs' = 0
  /\ cacheCalls' = 0
  /\ wrote' = FALSE
  /\ storeCalls' = 0
  /\ got' = <<>>
  /\ fault' = FALSE
  /\ prev' = IF lookup = "miss" /\ Succeeded /\ wrote
              THEN [req |-> req, body |-> res.body] ELSE NoPrev
  /\ nextErr' = <<>>
  /\ storeKey' = <<>>
  /\ paused' = FALSE
  /\ UNCHANGED <<cache, race, keyCase>>

Next ==
  \/ Arrive
  \/ CacheHit
  \/ CacheMiss
  \/ StreamHandler
  \/ OnResponse
  \/ OnData
  \/ ResDrain
  \/ OnEnd
  \/ OnError
  \/ ClientClose
  \/ ByIdHandler
  \/ ByIdResolved
  \/ ByIdRejected
  \/ Finish

Spec == Init /\ [][Next]_vars

\* The get-by-id routes alone, every type and id.
NextById ==
  \/ ArriveById
  \/ CacheHit
  \/ CacheMiss
  \/ ByIdHandler
  \/ ByIdResolved
  \/ ByIdRejected
  \/ Finish

SpecById == Init /\ [][NextById]_vars

\* ------------------------------------------------------------ cache keys
\* Keys as the strings they are: sequences of characters.
TypeChars ==
  [t \in ByIdTypes |->
     CASE t = "preprint" -> <<"p", "r", "e", "p", "r", "i", "n", "t">>
       [] t = "review"   -> <<"r", "e", "v", "i", "e", "w">>
       [] t = "request"  -> <<"r", "e", "q", "u", "e", "s", "t">>
       [] t = "user"     -> <<"u", "s", "e", "r">>
       [] t = "role"     -> <<"r", "o", "l", "e">>]
\* Path parameters: non-empty strings, which may hold a colon themselves.
IdChars == {"1", ":"}
IdStrings == UNION {[1..n -> IdChars] : n \in 1..MaxIdLen}
\* Query strings of a request: none, or one.
Queries == {<<>>, <<"?", "v">>}
KeyRequests == [type : ByIdTypes, id : IdStrings, query : Queries]

\* RouteKey had the key function appended the query string.
RouteKey_WithQuery(r) == TypeChars[r.type] \o <<":">> \o r.id \o r.query
\* The key function of a get-by-id route: `<type>:${req.params.<type>Id}`.
RouteKey(r) == TypeChars[r.type] \o <<":">> \o r.id
\* The default derivation: method, route and parameters.
DefaultRouteKey(r) ==
  <<"G", "E", "T", "/">> \o TypeChars[r.type] \o <<"/">> \o r.id \o r.query
\* deriveKey: a key function given to cache() takes precedence.
CacheKeyOf(r, hasKeyFn) == IF hasKeyFn THEN RouteKey(r) ELSE DefaultRouteKey(r)

\* Two requests on get-by-id routes, their keys not yet derived.
InitKeys ==
  /\ cache = [k \in Keys |-> Absent]
  /\ served = 0
  /\ req = NoReq
  /\ pc = "idle"
  /\ lookup = "none"
  /\ up = NoUp
  /\ buf = <<>>
  /\ res = NoRes
  /\ hasErrored = FALSE
  /\ nextErrs = 0
  /\ cacheCalls = 0
  /\ wrote = FALSE
  /\ storeCalls = 0
  /\ got = <<>>
  /\ fault = FALSE
  /\ prev = NoPrev
  /\ nextErr = <<>>
  /\ storeKey = <<>>
  /\ paused = FALSE
  /\ race = NoRace
  /\ keyCase \in [a : KeyRequests, b : KeyRequests, ka : {<<>>}, kb : {<<>>}]

\* The middleware derives the key of both requests; every get-by-id route
\* gives cache() a key function.
ApplyDeriveKey ==
  /\ keyCase.ka = <<>>
  /\ keyCase' = [keyCase EXCEPT !.ka = CacheKeyOf(keyCase.a, TRUE),
                                !.kb = CacheKeyOf(keyCase.b, TRUE)]
  /\ UNCHANGED <<cache, served, req, pc, lookup, up, buf, res, hasErrored,
                 nextErrs, cacheCalls, wrote, storeCalls, got, fault, prev,
                 nextErr, storeKey, paused, race>>

NextKeys == ApplyDeriveKey

SpecKeys == InitKeys /\ [][NextKeys]_vars

\* ------------------------------------------- two requests in flight
\* Two requests on GET /preprint/:preprintId served concurrently. The
\* handler is async: another request's steps can run between a request's
\* cache lookup, its call of req.db.get and the code after its await.
Racers == {1, 2}
RaceRequests == {r \in ByIdRequests : r.route = "preprint"}
RaceKeys == {KeyOverride(r) : r \in RaceRequests}
NoRacer == [req |-> NoReq, pc |-> "idle", lookup |-> "none", got |-> <<>>,
            body |-> <<>>, errs |-> 0, fetches |-> 0]

InitRace ==
  /\ cache = [k \in Keys |-> Absent]
  /\ served = 0
  /\ req = NoReq
  /\ pc = "idle"
  /\ lookup = "none"
  /\ up = NoUp
  /\ buf = <<>>
  /\ res = NoRes
  /\ hasErrored = FALSE
  /\ nextErrs = 0
  /\ cacheCalls = 0
  /\ wrote = FALSE
  /\ storeCalls = 0
  /\ got = <<>>
  /\ fault = FALSE
  /\ prev = NoPrev
  /\ nextErr = <<>>
  /\ storeKey = <<>>
  /\ paused = FALSE
  /\ race = [racers |-> [i \in Racers |-> NoRacer],
             last |-> [k \in RaceKeys |-> 0]]
  /\ keyCase = NoKeyCase

\* Request i arrives at the router.
RaceArrive(i) ==
  /\ race.racers[i].pc = "idle"
  /\ \E r \in RaceRequests :
       race' = [race EXCEPT !.racers[i].req = r, !.racers[i].pc = "lookup"]
  /\ UNCHANGED <<cache, served, req, pc, lookup, up, buf, res, hasErrored,
                 nextErrs, cacheCalls, wrote, storeCalls, got, fault, prev,
                 nextErr, storeKey, paused, keyCase>>

\* The cache middleware finds the key of request i and answers itself.
RaceCacheHit(i) ==
  /\ race.racers[i].pc = "lookup"
  /\ cache[DeriveKey(race.racers[i].req)] # Absent
  /\ race' = [race EXCEPT
       !.racers[i].lookup = "hit",
       !.racers[i].body = Stringify(cache[DeriveKey(race.racers[i].req)][1]),
       !.racers[i].pc = "done"]
  /\ UNCHANGED <<cache, served, req, pc, lookup, up, buf, res, hasErrored,
                 nextErrs, cacheCalls, wrote, storeCalls, got, fault, prev,
                 nextErr, storeKey, paused, keyCase>>

\* The cache middleware does not find the key of request i, or cannot look.
RaceCacheMiss(i) ==
  /\ race.racers[i].pc = "lookup"
  /\ \E l \in {"miss", "unavailable"} :
       /\ l = "miss" => cache[DeriveKey(race.racers[i].req)] = Absent
       /\ race' = [race EXCEPT !.racers[i].lookup = l,
                               !.racers[i].pc = "handler"]
  /\ UNCHANGED <<cache, served, req, pc, lookup, up, buf, res, hasErrored,
                 nextErrs, cacheCalls, wrote, storeCalls, got, fault, prev,
                 nextErr, storeKey, paused, keyCase>>

\* The handler of request i up to its await: req.db.get('preprint:<id>').
RaceHandler(i) ==
  /\ race.racers[i].pc = "handler"
  /\ race' = [race EXCEPT !.racers[i].fetches = @ + 1,
                          !.racers[i].pc = "awaiting"]
  /\ UNCHANGED <<cache, served, req, pc, lookup, up, buf, res, hasErrored,
                 nextErrs, cacheCalls, wrote, storeCalls, got, fault, prev,
                 nextErr, storeKey, paused, keyCase>>

\* req.db.get of request i resolved: req.cache(body), then res.json(body);
\* what req.cache throws goes to next(err) instead.
RaceResolved(i) ==
  /\ race.racers[i].pc = "awaiting"
  /\ \E v \in Values, o \in CacheOutcomes :
       LET k == DeriveKey(race.racers[i].req)
       IN /\ cache' = CacheSet(cache, k, v, o)
          /\ race' = [race EXCEPT
               !.racers[i].got = <<"ok", v>>,
               !.racers[i].body = IF o = "throws" THEN @ ELSE Stringify(v),
               !.racers[i].errs = IF o = "throws" THEN @ + 1 ELSE @,
               !.racers[i].pc = "done",
               !.last[k] = IF o = "stored" THEN i ELSE @]
  /\ UNCHANGED <<served, req, pc, lookup, up, buf, res, hasErrored, nextErrs,
                 cacheCalls, wrote, storeCalls, got, fault, prev, nextErr,
                 storeKey, paused, keyCase>>

\* req.db.get of request i rejected: next(err).
RaceRejected(i) ==
  /\ race.racers[i].pc = "awaiting"
  /\ race' = [race EXCEPT !.racers[i].got = <<"err">>,
                          !.racers[i].errs = @ + 1,
                          !.racers[i].pc = "done"]
  /\ UNCHANGED <<cache, served, req, pc, lookup, up, buf, res, hasErrored,
                 nextErrs, cacheCalls, wrote, storeCalls, got, fault, prev,
                 nextErr, storeKey, paused, keyCase>>

NextRace ==
  \E i \in Racers :
    \/ RaceArrive(i)
    \/ RaceCacheHit(i)
    \/ RaceCacheMiss(i)
    \/ RaceHandler(i)
    \/ RaceResolved(i)
    \/ RaceRejected(i)

SpecRace == InitRace /\ [][NextRace]_vars

\* The routes without the cache middleware.
NextApi ==
  \/ ArriveApi
  \/ ResolveHandler
  \/ ResolveResolved
  \/ ResolveRejected
  \/ PostHandler
  \/ PostResolved
  \/ PostRejected
  \/ SearchHandler
  \/ PdfHandler
  \/ PdfFetched
  \/ PdfRejected
  \/ Finish

SpecApi == Init /\ [][NextApi]_vars

\* ================================================================ claims
Streamed == req.kind = "stream"
\* The stream drained and the caller got a complete response.
DrainedOk == Streamed /\ up.phase = "ended" /\ Succeeded

\* C1: a streamed query request calls next(err) at most once, however many
\* 'error' events its upstream stream emits.
C1_AtMostOneError == Streamed => nextErrs <= 1

C1_Witness == Streamed /\ up.errors >= 2 /\ nextErrs = 1

\* C2: once the client has closed the response before the upstream
\* completed, the upstream is terminated and nothing is ever stored in the
\* cache for that request.
C2_NoCacheAfterDisconnect == (Streamed /\ res.closed) => ~wrote

\* C3 (its clause "never both"): no request gets both body bytes and an
\* error through next(err).
C3_NeverBodyAndError == ~(Len(res.body) > 0 /\ nextErrs > 0)

\* C4 as claimed: what a successfully drained streamed response committed
\* to the cache is, byte for byte, what the caller was sent.
C4_CachedBytesEqualSent ==
  (DrainedOk /\ wrote) => Stringify(cache[DeriveKey(req)][1]) = res.body

\* C4 as amended: what a successfully drained streamed response committed to
\* the cache is JSON.parse of the complete upstream byte sequence, which is
\* also exactly what the caller was sent.
C4_CachedIsParseOfSent ==
  (DrainedOk /\ wrote) =>
    /\ res.body = up.sent
    /\ ParseJSON(res.body).ok
    /\ cache[DeriveKey(req)] = <<ParseJSON(res.body).val>>

C4_Witness ==
  DrainedOk /\ wrote /\ res.body = <<" ", "1">> /\ cache[DeriveKey(req)] = <<1>>

\* C5: a streamed query whose upstream emitted an error event never calls
\* req.cache, so no partially received body reaches the cache.
C5_NoCacheWriteAfterError == (Streamed /\ up.errors > 0) => cacheCalls = 0

C5_Witness == Streamed /\ up.errors > 0 /\ Len(buf) > 0 /\ cacheCalls = 0

\* C6: when the buffered bytes of a drained stream do not parse, only the
\* cache write is suppressed: no unhandled fault, no error, and the response
\* is completed.
C6_ParseFailureIsSoft ==
  (Streamed /\ up.phase = "ended" /\ ~ParseJSON(buf).ok) =>
    /\ ~fault
    /\ cacheCalls = 0
    /\ nextErrs = 0
    /\ (res.ended \/ res.closed)

\* C7: whenever the Store fetch of a get-by-id request succeeded, the caller
\* gets the fetched body as a success response, whatever req.cache did.
C7_CacheWriteNeverFails ==
  (req.kind = "byid" /\ pc = "done" /\ got # <<>> /\ got[1] = "ok") =>
    /\ res.ended
    /\ res.body = Stringify(got[2])
    /\ nextErrs = 0

C11_MissingIdentifierIs400 ==
  (req.kind = "resolve" /\ Falsy(req)) =>
    /\ storeCalls = 0
    /\ got = <<>>
    /\ res = NoRes
    /\ (pc = "done" => nextErrs = 1 /\ nextErr = <<"http", 400>>)

C11_Witness ==
  /\ req.kind = "resolve" /\ req.present /\ req.id = ""
  /\ pc = "done" /\ nextErr = <<"http", 400>> /\ storeCalls = 0

\* C12: a /resolve request with an identifier invokes resolve exactly once;
\* when resolve fails the caller gets one error and no body, when it
\* succeeds one body and no error.
C12_ResolveOnceNoFallback ==
  (req.kind = "resolve" /\ ~Falsy(req)) =>
    /\ storeCalls <= 1
    /\ (pc = "done" =>
          /\ storeCalls = 1
          /\ \/ got = <<"err">> /\ nextErrs = 1 /\ res = NoRes
             \/ /\ got # <<>> /\ got[1] = "ok"
                /\ nextErrs = 0
                /\ res.ended /\ res.body = Stringify(got[2]))

C12_Witness ==
  /\ req.kind = "resolve" /\ ~Falsy(req)
  /\ pc = "done" /\ got = <<"err">> /\ nextErrs = 1 /\ storeCalls = 1

\* C20: POST /action without a login never invokes req.db.post and ends in
\* a 401 alone; with a login it invokes post exactly once and the caller
\* gets either the posted result or post's error, never both.
C20_PostGatedOnLogin ==
  req.kind = "post" =>
    /\ ~req.authed =>
         /\ storeCalls = 0
         /\ res = NoRes
         /\ (pc = "done" => nextErrs = 1 /\ nextErr = <<"http", 401>>)
    /\ (req.authed /\ pc = "done") =>
         /\ storeCalls = 1
         /\ \/ got = <<"err">> /\ nextErrs = 1 /\ res = NoRes
            \/ /\ got # <<>> /\ got[1] = "ok"
               /\ nextErrs = 0
               /\ res.ended /\ res.body = Stringify(got[2])

C20_Witness ==
  /\ req.kind = "post" /\ ~req.authed
  /\ pc = "done" /\ nextErr = <<"http", 401>> /\ storeCalls = 0

\* C13: every upstream error event is followed by an attempt to destroy the
\* stream; what the attempt throws is swallowed: the error given to next
\* stays the first upstream error, no second call of next happens and
\* nothing escapes the listener.
C13_TeardownSwallowed ==
  Streamed =>
    /\ up.tries = up.errors
    /\ (up.errors > 0 =>
          /\ nextErrs = 1
          /\ nextErr = <<"upstream", 1>>
          /\ ~fault)

C13_Witness ==
  /\ Streamed /\ up.errors = 2 /\ up.tries = 2 /\ ~up.destroyed
  /\ nextErr = <<"upstream", 1>>

\* The sequence s is a prefix of the sequence t.
IsPrefix(s, t) == Len(s) <= Len(t) /\ SubSeq(t, 1, Len(s)) = s

\* C17: once the handler has opened the upstream stream, the response and
\* the cache buffer have each received a prefix of the upstream byte sequence, and while res cannot accept more data the
\* upstream is paused and delivers nothing.
C17_SinksInOrderAndPaused ==
  /\ []((Streamed /\ up.phase # "none") =>
          /\ IsPrefix(res.body, up.sent)
          /\ IsPrefix(buf, up.sent)
          /\ (res.needDrain => paused))
  /\ [][(Streamed /\ res.needDrain /\ req' = req) =>
          (up'.sent = up.sent /\ buf' = buf /\ res'.body = res.body)]_vars

C17_Witness ==
  /\ Streamed /\ res.needDrain /\ paused
  /\ Len(up.sent) = 2 /\ res.body = up.sent /\ buf = up.sent

\* C16: a request whose cache lookup failed and whose Store fetch met no
\* failure ends as a success with the fetched response; nothing the cache
\* does turns it into a failure.
C16_FailOpen ==
  (lookup = "unavailable" /\ pc = "done") =>
    /\ storeCalls = 1
    /\ (req.kind = "byid" /\ got # <<>> /\ got[1] = "ok") =>
         (nextErrs = 0 /\ ~fault /\ res.ended /\ res.body = Stringify(got[2]))
    /\ (Streamed /\ up.phase = "ended" /\ ParseJSON(buf).ok /\ ~res.closed) =>
         (nextErrs = 0 /\ ~fault /\ res.ended /\ res.body = up.sent)

\* C18: a streamed response whose upstream status is an error status is
\* never committed to the cache.
C18_ErrorStatusNotCached ==
  (Streamed /\ up.phase # "none" /\ up.status >= 400) => ~wrote

\* C19: a get-by-id request fetches the Store under its cache key; the cache
\* is written only once the fetch succeeded, with the value that is sent;
\* a failed fetch leaves the cache unwritten, sends no body and gives its
\* error to next exactly once.
C19_ByIdKeyAndValue ==
  req.kind = "byid" =>
    /\ storeCalls > 0 => storeKey = DeriveKey(req)
    /\ cacheCalls > 0 => (got # <<>> /\ got[1] = "ok")
    /\ wrote =>
         /\ cache[storeKey] = <<got[2]>>
         /\ res.ended /\ res.body = Stringify(got[2])
    /\ got = <<"err">> =>
         /\ cacheCalls = 0 /\ ~wrote
         /\ res = NoRes
         /\ nextErrs = 1 /\ nextErr = <<"store">>

C19_Witness ==
  /\ req.kind = "byid" /\ req.route = "role" /\ storeKey = <<"role", "456">>
  /\ wrote /\ cache[storeKey] = <<11>> /\ res.body = Stringify(11)

\* C15: the cache key of a get-by-id request is exactly its type, a colon
\* and its path parameter: two requests with the same type and id have the
\* same key whatever their query strings, and requests that differ in type
\* or id have different keys.
C15_KeyIsTypeColonId ==
  (keyCase # NoKeyCase /\ keyCase.ka # <<>>) =>
    LET a == keyCase.a
        b == keyCase.b
        n == Len(TypeChars[a.type])
    IN /\ Len(keyCase.ka) = n + 1 + Len(a.id)
       /\ SubSeq(keyCase.ka, 1, n) = TypeChars[a.type]
       /\ keyCase.ka[n + 1] = ":"
       /\ SubSeq(keyCase.ka, n + 2, Len(keyCase.ka)) = a.id
       /\ keyCase.ka # DefaultRouteKey(a)
       /\ (a.type = b.type /\ a.id = b.id) => keyCase.ka = keyCase.kb
       /\ (a.type # b.type \/ a.id # b.id) => keyCase.ka # keyCase.kb

C15_Witness ==
  /\ keyCase # NoKeyCase /\ keyCase.ka # <<>>
  /\ keyCase.a.type = "user" /\ keyCase.b.type = "user"
  /\ keyCase.a.id = <<":", "1">> /\ keyCase.b.id = keyCase.a.id
  /\ keyCase.a.query # keyCase.b.query
  /\ keyCase.ka = keyCase.kb

\* Both requests in flight missed the cache on the same key and are done.
RaceOver ==
  /\ race # NoRace
  /\ \A i \in Racers : race.racers[i].pc = "done" /\ race.racers[i].lookup = "miss"
  /\ race.racers[1].req = race.racers[2].req

\* C14: when two concurrent requests missed the cache on the same key, each
\* caller whose fetch returned a value receives that value, and in the end
\* the cache entry holds the value of the last writer, the other key's entry
\* being untouched.
C14_RaceOwnValueLastWriter ==
  RaceOver =>
    /\ \A i \in Racers :
         /\ race.racers[i].fetches = 1
         /\ (race.racers[i].got # <<>> /\ race.racers[i].got[1] = "ok") =>
              /\ race.racers[i].body = Stringify(race.racers[i].got[2])
              /\ race.racers[i].errs = 0
    /\ \A k \in RaceKeys :
         cache[k] = IF race.last[k] = 0 THEN Absent
                    ELSE <<race.racers[race.last[k]].got[2]>>

\* What holds of the race whatever req.cache does: no lock, both fetch; a
\* caller who gets a body gets the value of its own fetch; the cache entry
\* is the last stored write's value.
RaceLastWriterWins ==
  RaceOver =>
    /\ \A i \in Racers :
         /\ race.racers[i].fetches = 1
         /\ race.racers[i].body # <<>> =>
              /\ race.racers[i].got # <<>> /\ race.racers[i].got[1] = "ok"
              /\ race.racers[i].body = Stringify(race.racers[i].got[2])
    /\ \A k \in RaceKeys :
         cache[k] = IF race.last[k] = 0 THEN Absent
                    ELSE <<race.racers[race.last[k]].got[2]>>

====
